---- MODULE Spec2Model ----
(***************************************************************************)
(* Model of src/airplay_server.cpp (RPiPlay): main, the signal bridge,     *)
(* start_server and stop_server.  The main thread is a program counter     *)
(* walking through the statements of main/start_server/stop_server; the    *)
(* signal handler is an asynchronous action that may run between any two   *)
(* statements once init_signals has installed it.  The external subsystems *)
(* (raop, dnssd, renderers) are instrumented mocks: every call is recorded *)
(* in `calls`, and `live`/`started`/`registered` hold the mock's state.    *)
(* The protocol engine's threads are a second process: between raop_start  *)
(* and raop_destroy they may invoke the callbacks registered with          *)
(* raop_init, and any live subsystem may emit a log event.                 *)
(*                                                                         *)
(* Three specifications share the actions and differ in the inputs drawn:  *)
(*   Spec        control thread and signals, every command line            *)
(*   MacSpec     control thread and signals, every state of the two        *)
(*               interface address files                                   *)
(*   EngineSpec  control thread, signals and engine-thread callbacks       *)
(***************************************************************************)
(* Strings that the code indexes are sequences of one-character strings.   *)
(***************************************************************************)
EXTENDS Integers, Sequences, FiniteSets, TLC

\* ---------------------------------------------------------------- bounds
MaxArgs == 2        \* longest command line (arguments after argv[0])
MaxSignals == 2     \* most signals delivered in one run
MaxCallbacks == 2   \* most engine-thread callbacks delivered in one run

\* ------------------------------------------------------------- constants
NULL == "NULL"
USHORT_MOD == 65536                     \* unsigned short port
Ports == {0, 1, 7000, USHORT_MOD - 2, USHORT_MOD - 1}
Signals == {"SIGINT", "SIGTERM", "SIGUSR1"}
TermSignals == {"SIGINT", "SIGTERM"}
Tokens == {"-n", "-b", "-a", "-l", "-h", "-v", "hdmi", "analog", "off"}
InitSteps == {"raop_init", "video_renderer_init", "audio_renderer_init", "dnssd_init"}

DEFAULT_NAME == "RPiPlay"
DEFAULT_SHOW_BACKGROUND == TRUE
DEFAULT_AUDIO_DEVICE == "AUDIO_DEVICE_HDMI"
DEFAULT_LOW_LATENCY == FALSE
DEFAULT_HW_ADDRESS == <<72, 93, 96, 124, 238, 34>>   \* 48:5d:60:7c:ee:22

\* contents of /sys/class/net/<if>/address as read by operator>>
MAC_ETH == <<"b", "8", ":", "2", "7", ":", "e", "b", ":", "0", "1", ":", "0", "2", ":", "0", "3">>
MAC_WLAN == <<"d", "c", "-", "a", "6", "-", "3", "2", "-", "0", "a", "-", "0", "b", "-", "0", "c">>
MAC_SHORT == <<"b", "8", ":", "2", "7">>
MAC_LONG == <<"b", "8", ":", "2", "7", ":", "e", "b", ":", "0", "1", ":", "0", "2", ":", "0", "3", ":", "0", "4">>
MAC_BAD == <<"b", "8", ":", ":", "2", "7">>
MacTexts == {MAC_ETH, MAC_WLAN, MAC_SHORT, MAC_LONG, MAC_BAD}
Unreadable == [readable |-> FALSE, text |-> <<>>]
EmptyFile == [readable |-> TRUE, text |-> <<>>]
File(t) == [readable |-> TRUE, text |-> t]
\* arguments the engine hands to its callbacks
AudioFrames == {<<"ntp", "aac1", 1, 10>>, <<"ntp", "aac2", 2, 20>>}      \* ntp, data, data_len, pts
VideoFrames == {<<"ntp", "h264a", 1, 10, 0>>, <<"ntp", "h264b", 2, 20, 1>>} \* ..., frame_type
Volumes == {-30, 0}
LogLevels == {"LOGGER_ERR", "LOGGER_WARNING", "LOGGER_INFO", "LOGGER_DEBUG",
              "LOGGER_NOTICE"}
EngineMsg == "engine message"
EngineArgs == {<<>>, <<"-a", "off">>}

MacSources == {Unreadable, EmptyFile} \cup {File(t) : t \in MacTexts}

VARIABLES
    pc,              \* position of the main thread
    argv,            \* command line after argv[0]
    cfg,             \* main's locals: server_name, show_background, audio_device, low_latency
    installed,       \* signal handlers installed by init_signals
    running,         \* static bool running
    raop, dnssd, video_renderer, audio_renderer,   \* static handles
    port,            \* start_server's local unsigned short port
    ret,             \* <<>> until start_server returns, then <<value>>
    exit_status,     \* <<>> until the process exits, then <<status>>
    calls,           \* mock: every subsystem call, in order, with the handle passed
    live,            \* mock: subsystems constructed and not destroyed
    started,         \* mock: subsystems started
    registered,      \* mock: advertised port of each service, <<>> when not advertised
    raop_port,       \* mock: the engine's own port record
    logs,            \* process log sink
    nsig,            \* signals delivered so far
    termReceived,    \* a SIGINT or SIGTERM has been delivered
    failed,          \* the init step at which the mock injected a failure, or "none"
    eth0, wlan0,     \* environment: the two interface address files
    mac_address,     \* main's local std::string mac_address
    server_hw_addr,  \* main's local std::vector<char> server_hw_addr
    advertised_hw,   \* mock: <<>> until dnssd_init, then <<hw_addr handed to it>>
    raop_cbs,        \* mock: callbacks registered with the engine by raop_init
    delivered,       \* engine-thread callback invocations so far, with their arguments
    rendered         \* mock: calls made on the renderers by the callbacks

handles == <<raop, dnssd, video_renderer, audio_renderer>>
mock == <<calls, live, started, registered, raop_port>>
sigstate == <<installed, running, nsig, termReceived>>
hwaddr == <<eth0, wlan0, mac_address, server_hw_addr>>
engine == <<delivered, rendered>>
vars == <<pc, argv, cfg, port, ret, exit_status, logs, failed, handles, mock, sigstate,
          hwaddr, engine, advertised_hw, raop_cbs>>

\* ------------------------------------------------------- argument parsing
DefaultCfg ==
    [server_name |-> DEFAULT_NAME, show_background |-> DEFAULT_SHOW_BACKGROUND,
     audio_device |-> DEFAULT_AUDIO_DEVICE, low_latency |-> DEFAULT_LOW_LATENCY,
     help |-> FALSE]

audio_device_of(name) ==
    IF name = "hdmi" THEN "AUDIO_DEVICE_HDMI"
    ELSE IF name = "analog" THEN "AUDIO_DEVICE_ANALOG"
    ELSE "AUDIO_DEVICE_NONE"

RECURSIVE ParseArgs(_, _, _)
ParseArgs(args, i, c) ==
    IF i > Len(args) THEN c
    ELSE LET arg == args[i] IN
        IF arg = "-n" THEN
            IF i = Len(args) THEN ParseArgs(args, i + 1, c)
            ELSE ParseArgs(args, i + 2, [c EXCEPT !.server_name = args[i + 1]])
        ELSE IF arg = "-b" THEN
            ParseArgs(args, i + 1, [c EXCEPT !.show_background = ~c.show_background])
        ELSE IF arg = "-a" THEN
            IF i = Len(args) THEN ParseArgs(args, i + 1, c)
            ELSE ParseArgs(args, i + 2, [c EXCEPT !.audio_device = audio_device_of(args[i + 1])])
        ELSE IF arg = "-l" THEN
            ParseArgs(args, i + 1, [c EXCEPT !.low_latency = ~c.low_latency])
        ELSE IF arg = "-h" \/ arg = "-v" THEN
            [c EXCEPT !.help = TRUE]
        ELSE ParseArgs(args, i + 1, c)

\* ------------------------------------------------------------------ Init
ArgLists == UNION {[1..n -> Tokens] : n \in 0..MaxArgs}

InitRest ==
    /\ pc = "init_signals"
    /\ cfg = DefaultCfg
    /\ installed = FALSE
    /\ running = FALSE
    /\ raop = NULL /\ dnssd = NULL /\ video_renderer = NULL /\ audio_renderer = NULL
    /\ port = 0
    /\ ret = <<>>
    /\ exit_status = <<>>
    /\ calls = <<>>
    /\ live = {}
    /\ started = {}
    /\ registered = [raop |-> <<>>, airplay |-> <<>>]
    /\ raop_port = <<>>
    /\ logs = <<>>
    /\ nsig = 0
    /\ termReceived = FALSE
    /\ failed = "none"
    /\ mac_address = <<>>
    /\ server_hw_addr = DEFAULT_HW_ADDRESS
    /\ advertised_hw = <<>>
    /\ raop_cbs = {}
    /\ delivered = <<>>
    /\ rendered = <<>>

Init ==
    /\ argv \in ArgLists
    /\ eth0 = File(MAC_ETH) /\ wlan0 = Unreadable
    /\ InitRest

InitEngine ==
    /\ argv \in EngineArgs
    /\ eth0 = File(MAC_ETH) /\ wlan0 = Unreadable
    /\ InitRest

InitMac ==
    /\ argv = <<>>
    /\ eth0 \in MacSources /\ wlan0 \in MacSources
    /\ InitRest

Call(op, h) == calls' = Append(calls, [op |-> op, h |-> h])
Log(sev, msg) == logs' = Append(logs, <<sev, msg>>)

\* ----------------------------------------------------------- signal bridge
signal_handler_logging(sig) ==
    /\ installed
    /\ pc # "exited"
    /\ nsig < MaxSignals
    /\ running' = IF sig \in TermSignals THEN FALSE ELSE running
    /\ nsig' = nsig + 1
    /\ termReceived' = (termReceived \/ sig \in TermSignals)
    /\ Log("I", "signal")
    /\ UNCHANGED <<pc, argv, hwaddr, engine, advertised_hw, raop_cbs,
                   cfg, port, ret, exit_status, failed, handles, mock, installed>>

signal_handler(sig) ==
    /\ installed
    /\ pc # "exited"
    /\ nsig < MaxSignals
    /\ running' = IF sig \in TermSignals THEN FALSE ELSE running
    /\ nsig' = nsig + 1
    /\ termReceived' = (termReceived \/ sig \in TermSignals)
    /\ UNCHANGED <<pc, argv, hwaddr, engine, advertised_hw, raop_cbs,
                   cfg, port, ret, exit_status, logs, failed, handles, mock, installed>>

init_signals ==
    /\ pc = "init_signals"
    /\ installed' = TRUE
    /\ pc' = "parse_args"
    /\ UNCHANGED <<argv, hwaddr, engine, advertised_hw, raop_cbs,
                   cfg, port, ret, exit_status, logs, failed, handles, mock,
                   running, nsig, termReceived>>

\* -------------------------------------------------------------------- main
parse_args ==
    /\ pc = "parse_args"
    /\ cfg' = ParseArgs(argv, 1, cfg)
    /\ IF cfg'.help
       THEN /\ pc' = "exited"
            /\ exit_status' = <<0>>
       ELSE /\ pc' = "find_mac"
            /\ UNCHANGED exit_status
    /\ UNCHANGED <<argv, hwaddr, engine, advertised_hw, raop_cbs,
                   port, ret, logs, failed, handles, mock, sigstate>>

\* ------------------------------------------------ hardware address, main
HexDigits == <<"0", "1", "2", "3", "4", "5", "6", "7", "8", "9",
               "a", "b", "c", "d", "e", "f">>
IsHex(c) == \E i \in DOMAIN HexDigits : HexDigits[i] = c
HexVal(c) == (CHOOSE i \in DOMAIN HexDigits : HexDigits[i] = c) - 1

\* str.substr(i), i counted from 0
substr(str, i) == SubSeq(str, i + 1, Len(str))

\* the low byte of the hexadecimal number spelt by the leading hex digits of
\* s, continuing from the low byte acc
RECURSIVE HexLow(_, _)
HexLow(s, acc) ==
    IF s = <<>> \/ ~IsHex(s[1]) THEN acc
    ELSE HexLow(Tail(s), (acc * 16 + HexVal(s[1])) % 256)

\* (char) stol(s, NULL, 16) for s without whitespace and with fewer than 16
\* hex digits: an optional sign, then the longest run of hex digits;
\* std::invalid_argument when there is no digit.  The byte is given in 0..255.
stol_char(s) ==
    LET signed == s # <<>> /\ s[1] \in {"-", "+"}
        digits == IF signed THEN Tail(s) ELSE s
        low == HexLow(digits, 0)
    IN  IF digits = <<>> \/ ~IsHex(digits[1]) THEN [ok |-> FALSE, byte |-> 0]
        ELSE IF signed /\ s[1] = "-" THEN [ok |-> TRUE, byte |-> (256 - low) % 256]
        ELSE [ok |-> TRUE, byte |-> low]

\* parse_hw_addr appending to hw_addr from offset i; ok is FALSE when stol throws
RECURSIVE parse_from(_, _, _)
parse_from(str, i, hw_addr) ==
    IF ~(i < Len(str)) THEN [ok |-> TRUE, bytes |-> hw_addr]
    ELSE LET r == stol_char(substr(str, i)) IN
         IF ~r.ok THEN [ok |-> FALSE, bytes |-> hw_addr]
         ELSE parse_from(str, i + 3, Append(hw_addr, r.byte))

parse_hw_addr(str, hw_addr) == parse_from(str, 0, hw_addr)

\* find_mac: wlan0 is opened only when eth0 cannot be opened; whatever the
\* opened file yields is returned
find_mac(e, w) ==
    IF e.readable THEN e.text
    ELSE IF w.readable THEN w.text
    ELSE <<>>

\* std::string mac_address = find_mac();
main_find_mac ==
    /\ pc = "find_mac"
    /\ mac_address' = find_mac(eth0, wlan0)
    /\ pc' = "parse_hw_addr"
    /\ UNCHANGED <<argv, eth0, wlan0, server_hw_addr, engine, advertised_hw, raop_cbs,
                   cfg, port, ret, exit_status, logs, failed, handles, mock, sigstate>>

\* if (!mac_address.empty()) { server_hw_addr.clear(); parse_hw_addr(...); }
\* an exception leaving parse_hw_addr is uncaught: the process aborts (134)
main_parse_hw_addr ==
    /\ pc = "parse_hw_addr"
    /\ IF mac_address = <<>>
       THEN /\ pc' = "raop_init"
            /\ UNCHANGED <<server_hw_addr, exit_status>>
       ELSE LET r == parse_hw_addr(mac_address, <<>>) IN
            /\ server_hw_addr' = r.bytes
            /\ IF r.ok
               THEN /\ pc' = "raop_init"
                    /\ UNCHANGED exit_status
               ELSE /\ pc' = "exited"
                    /\ exit_status' = <<134>>
    /\ UNCHANGED <<argv, eth0, wlan0, mac_address, engine, advertised_hw, raop_cbs,
                   cfg, port, ret, logs, failed, handles, mock, sigstate>>

\* ------------------------------------------------------------ start_server
\* value start_server returns when the given init step fails
start_error(step) == IF step = "dnssd_init" THEN -2 ELSE -1

raop_init ==
    /\ pc = "raop_init"
    /\ \E ok \in BOOLEAN :
        IF ok
        THEN /\ raop' = "raop"
             /\ raop_cbs' = {"audio_process", "video_process", "audio_set_volume"}
             /\ live' = live \cup {"raop"}
             /\ logs' = logs \o <<<<"D", "raop init success">>>>
                             \o (IF cfg.low_latency
                                 THEN <<<<"I", "Using low-latency mode">>>> ELSE <<>>)
             /\ pc' = "video_renderer_init"
             /\ UNCHANGED <<ret, failed>>
        ELSE /\ raop' = NULL
             /\ UNCHANGED raop_cbs
             /\ Log("E", "raop = NULL")
             /\ ret' = <<start_error("raop_init")>>
             /\ failed' = "raop_init"
             /\ pc' = "main_check"
             /\ UNCHANGED live
    /\ Call("raop_init", NULL)
    /\ UNCHANGED <<argv, hwaddr, engine, advertised_hw,
                   cfg, port, exit_status, dnssd, video_renderer, audio_renderer,
                   started, registered, raop_port, sigstate>>

video_renderer_init ==
    /\ pc = "video_renderer_init"
    /\ \E ok \in BOOLEAN :
        IF ok
        THEN /\ video_renderer' = "video"
             /\ live' = live \cup {"video"}
             /\ pc' = "audio_renderer_init"
             /\ UNCHANGED <<ret, failed, logs>>
        ELSE /\ video_renderer' = NULL
             /\ Log("E", "Could not init video renderer")
             /\ ret' = <<start_error("video_renderer_init")>>
             /\ failed' = "video_renderer_init"
             /\ pc' = "main_check"
             /\ UNCHANGED live
    /\ Call("video_renderer_init", NULL)
    /\ UNCHANGED <<argv, hwaddr, engine, advertised_hw, raop_cbs,
                   cfg, port, exit_status, raop, dnssd, audio_renderer,
                   started, registered, raop_port, sigstate>>

audio_renderer_init_always ==
    /\ pc = "audio_renderer_init"
    /\ audio_renderer' = "audio"
    /\ live' = live \cup {"audio"}
    /\ pc' = "video_renderer_start"
    /\ Call("audio_renderer_init", video_renderer)
    /\ UNCHANGED <<argv, hwaddr, engine, advertised_hw, raop_cbs,
                   cfg, port, ret, exit_status, logs, failed, raop, dnssd,
                   video_renderer, started, registered, raop_port, sigstate>>

audio_renderer_init ==
    /\ pc = "audio_renderer_init"
    /\ IF cfg.audio_device = "AUDIO_DEVICE_NONE"
       THEN /\ Log("I", "Audio disabled")
            /\ pc' = "video_renderer_start"
            /\ UNCHANGED <<audio_renderer, live, ret, failed, calls>>
       ELSE /\ Call("audio_renderer_init", video_renderer)
            /\ \E ok \in BOOLEAN :
                IF ok
                THEN /\ audio_renderer' = "audio"
                     /\ live' = live \cup {"audio"}
                     /\ pc' = "video_renderer_start"
                     /\ UNCHANGED <<ret, failed, logs>>
                ELSE /\ audio_renderer' = NULL
                     /\ Log("E", "Could not init audio renderer")
                     /\ ret' = <<start_error("audio_renderer_init")>>
                     /\ failed' = "audio_renderer_init"
                     /\ pc' = "main_check"
                     /\ UNCHANGED live
    /\ UNCHANGED <<argv, hwaddr, engine, advertised_hw, raop_cbs,
                   cfg, port, exit_status, raop, dnssd, video_renderer,
                   started, registered, raop_port, sigstate>>

video_renderer_start_skipped ==
    /\ pc = "video_renderer_start"
    /\ pc' = "audio_renderer_start"
    /\ UNCHANGED <<argv, hwaddr, engine, advertised_hw, raop_cbs,
                   cfg, port, ret, exit_status, logs, failed, handles, mock, sigstate>>

video_renderer_start ==
    /\ pc = "video_renderer_start"
    /\ IF video_renderer # NULL
       THEN /\ Call("video_renderer_start", video_renderer)
            /\ started' = started \cup {"video"}
       ELSE UNCHANGED <<calls, started>>
    /\ pc' = "audio_renderer_start"
    /\ UNCHANGED <<argv, hwaddr, engine, advertised_hw, raop_cbs,
                   cfg, port, ret, exit_status, logs, failed, handles,
                   live, registered, raop_port, sigstate>>

audio_renderer_start_skipped ==
    /\ pc = "audio_renderer_start"
    /\ pc' = "raop_start"
    /\ UNCHANGED <<argv, hwaddr, engine, advertised_hw, raop_cbs,
                   cfg, port, ret, exit_status, logs, failed, handles, mock, sigstate>>

audio_renderer_start ==
    /\ pc = "audio_renderer_start"
    /\ IF audio_renderer # NULL
       THEN /\ Call("audio_renderer_start", audio_renderer)
            /\ started' = started \cup {"audio"}
       ELSE UNCHANGED <<calls, started>>
    /\ pc' = "raop_start"
    /\ UNCHANGED <<argv, hwaddr, engine, advertised_hw, raop_cbs,
                   cfg, port, ret, exit_status, logs, failed, handles,
                   live, registered, raop_port, sigstate>>

\* raop_start(raop, &port): the engine picks the port
raop_start ==
    /\ pc = "raop_start"
    /\ \E p \in Ports : port' = p
    /\ Call("raop_start", raop)
    /\ started' = started \cup {"raop"}
    /\ pc' = "raop_set_port"
    /\ UNCHANGED <<argv, hwaddr, engine, advertised_hw, raop_cbs,
                   cfg, ret, exit_status, logs, failed, handles,
                   live, registered, raop_port, sigstate>>

raop_set_port_skipped ==
    /\ pc = "raop_set_port"
    /\ Log("D", "raop port")
    /\ pc' = "dnssd_init"
    /\ UNCHANGED <<argv, hwaddr, engine, advertised_hw, raop_cbs,
                   cfg, port, ret, exit_status, failed, handles, mock, sigstate>>

raop_set_port ==
    /\ pc = "raop_set_port"
    /\ raop_port' = <<port>>
    /\ Call("raop_set_port", raop)
    /\ Log("D", "raop port")
    /\ pc' = "dnssd_init"
    /\ UNCHANGED <<argv, hwaddr, engine, advertised_hw, raop_cbs,
                   cfg, port, ret, exit_status, failed, handles,
                   live, started, registered, sigstate>>

dnssd_init ==
    /\ pc = "dnssd_init"
    /\ \E error \in {0, 1} :
        IF error # 0
        THEN /\ dnssd' = NULL
             /\ Log("E", "Could not initialize dnssd library!")
             /\ ret' = <<start_error("dnssd_init")>>
             /\ failed' = "dnssd_init"
             /\ pc' = "main_check"
             /\ UNCHANGED live
        ELSE /\ dnssd' = "dnssd"
             /\ live' = live \cup {"dnssd"}
             /\ pc' = "raop_set_dnssd"
             /\ UNCHANGED <<ret, failed, logs>>
    /\ Call("dnssd_init", NULL)
    /\ advertised_hw' = <<server_hw_addr>>
    /\ UNCHANGED <<argv, hwaddr, engine, raop_cbs,
                   cfg, port, exit_status, raop, video_renderer, audio_renderer,
                   started, registered, raop_port, sigstate>>

raop_set_dnssd ==
    /\ pc = "raop_set_dnssd"
    /\ Call("raop_set_dnssd", dnssd)
    /\ pc' = "dnssd_register_raop"
    /\ UNCHANGED <<argv, hwaddr, engine, advertised_hw, raop_cbs,
                   cfg, port, ret, exit_status, logs, failed, handles,
                   live, started, registered, raop_port, sigstate>>

dnssd_register_raop ==
    /\ pc = "dnssd_register_raop"
    /\ Call("dnssd_register_raop", dnssd)
    /\ registered' = [registered EXCEPT !.raop = <<port>>]
    /\ pc' = "dnssd_register_airplay"
    /\ UNCHANGED <<argv, hwaddr, engine, advertised_hw, raop_cbs,
                   cfg, port, ret, exit_status, logs, failed, handles,
                   live, started, raop_port, sigstate>>

\* the argument expression `port + 1`, port an unsigned short promoted to int
airplay_port_wrapped(p) == (p + 1) % USHORT_MOD
airplay_port(p) == p + 1

\* dnssd_register_airplay(dnssd, port + 1); return 0;
dnssd_register_airplay ==
    /\ pc = "dnssd_register_airplay"
    /\ Call("dnssd_register_airplay", dnssd)
    /\ registered' = [registered EXCEPT !.airplay = <<airplay_port(port)>>]
    /\ ret' = <<0>>
    /\ pc' = "main_check"
    /\ UNCHANGED <<argv, hwaddr, engine, advertised_hw, raop_cbs,
                   cfg, port, exit_status, logs, failed, handles,
                   live, started, raop_port, sigstate>>

\* ------------------------------------------------------- main, after start
main_check_ignoring ==
    /\ pc = "main_check"
    /\ pc' = "set_running"
    /\ UNCHANGED <<argv, hwaddr, engine, advertised_hw, raop_cbs,
                   cfg, port, ret, exit_status, logs, failed, handles, mock, sigstate>>

\* if (start_server(...) != 0) return 1;
main_check ==
    /\ pc = "main_check"
    /\ IF ret[1] # 0
       THEN /\ pc' = "exited"
            /\ exit_status' = <<1>>
       ELSE /\ pc' = "set_running"
            /\ UNCHANGED exit_status
    /\ UNCHANGED <<argv, hwaddr, engine, advertised_hw, raop_cbs,
                   cfg, port, ret, logs, failed, handles, mock, sigstate>>

\* running = true;
set_running ==
    /\ pc = "set_running"
    /\ running' = TRUE
    /\ pc' = "run_loop"
    /\ UNCHANGED <<argv, hwaddr, engine, advertised_hw, raop_cbs,
                   cfg, port, ret, exit_status, logs, failed, handles, mock,
                   installed, nsig, termReceived>>

run_loop_forever ==
    /\ pc = "run_loop"
    /\ pc' = "sleep"
    /\ UNCHANGED <<argv, hwaddr, engine, advertised_hw, raop_cbs,
                   cfg, port, ret, exit_status, logs, failed, handles, mock, sigstate>>

run_loop_once ==
    /\ pc = "run_loop"
    /\ Log("I", "Stopping...")
    /\ pc' = "raop_destroy"
    /\ UNCHANGED <<argv, hwaddr, engine, advertised_hw, raop_cbs,
                   cfg, port, ret, exit_status, failed, handles, mock, sigstate>>

\* while (running) ... ; LOGI("Stopping...");
run_loop ==
    /\ pc = "run_loop"
    /\ IF running
       THEN /\ pc' = "sleep"
            /\ UNCHANGED logs
       ELSE /\ Log("I", "Stopping...")
            /\ pc' = "raop_destroy"
    /\ UNCHANGED <<argv, hwaddr, engine, advertised_hw, raop_cbs,
                   cfg, port, ret, exit_status, failed, handles, mock, sigstate>>

\* sleep(1);
sleep ==
    /\ pc = "sleep"
    /\ pc' = "run_loop"
    /\ UNCHANGED <<argv, hwaddr, engine, advertised_hw, raop_cbs,
                   cfg, port, ret, exit_status, logs, failed, handles, mock, sigstate>>

\* ------------------------------------------------------------- stop_server
\* statement order of stop_server
StopNext_swapped(p) ==
    CASE p = "raop_destroy" -> "dnssd_unregister_raop"
      [] p = "dnssd_unregister_raop" -> "dnssd_unregister_airplay"
      [] p = "dnssd_unregister_airplay" -> "video_renderer_destroy"
      [] p = "video_renderer_destroy" -> "audio_renderer_destroy"
      [] p = "audio_renderer_destroy" -> "main_return"

StopNext(p) ==
    CASE p = "raop_destroy" -> "dnssd_unregister_raop"
      [] p = "dnssd_unregister_raop" -> "dnssd_unregister_airplay"
      [] p = "dnssd_unregister_airplay" -> "audio_renderer_destroy"
      [] p = "audio_renderer_destroy" -> "video_renderer_destroy"
      [] p = "video_renderer_destroy" -> "main_return"

raop_destroy ==
    /\ pc = "raop_destroy"
    /\ Call("raop_destroy", raop)
    /\ live' = live \ {"raop"}
    /\ started' = started \ {"raop"}
    /\ pc' = StopNext(pc)
    /\ UNCHANGED <<argv, hwaddr, engine, advertised_hw, raop_cbs,
                   cfg, port, ret, exit_status, logs, failed, handles,
                   registered, raop_port, sigstate>>

dnssd_unregister_raop ==
    /\ pc = "dnssd_unregister_raop"
    /\ Call("dnssd_unregister_raop", dnssd)
    /\ registered' = [registered EXCEPT !.raop = <<>>]
    /\ pc' = StopNext(pc)
    /\ UNCHANGED <<argv, hwaddr, engine, advertised_hw, raop_cbs,
                   cfg, port, ret, exit_status, logs, failed, handles,
                   live, started, raop_port, sigstate>>

dnssd_unregister_airplay ==
    /\ pc = "dnssd_unregister_airplay"
    /\ Call("dnssd_unregister_airplay", dnssd)
    /\ registered' = [registered EXCEPT !.airplay = <<>>]
    /\ pc' = StopNext(pc)
    /\ UNCHANGED <<argv, hwaddr, engine, advertised_hw, raop_cbs,
                   cfg, port, ret, exit_status, logs, failed, handles,
                   live, started, raop_port, sigstate>>

\* audio_renderer_destroy(audio_renderer): called whatever the handle is
audio_renderer_destroy ==
    /\ pc = "audio_renderer_destroy"
    /\ Call("audio_renderer_destroy", audio_renderer)
    /\ live' = live \ {"audio"}
    /\ started' = started \ {"audio"}
    /\ pc' = StopNext(pc)
    /\ UNCHANGED <<argv, hwaddr, engine, advertised_hw, raop_cbs,
                   cfg, port, ret, exit_status, logs, failed, handles,
                   registered, raop_port, sigstate>>

video_renderer_destroy ==
    /\ pc = "video_renderer_destroy"
    /\ Call("video_renderer_destroy", video_renderer)
    /\ live' = live \ {"video"}
    /\ started' = started \ {"video"}
    /\ pc' = StopNext(pc)
    /\ UNCHANGED <<argv, hwaddr, engine, advertised_hw, raop_cbs,
                   cfg, port, ret, exit_status, logs, failed, handles,
                   registered, raop_port, sigstate>>

\* stop_server returns 0 and main falls off its end
main_return ==
    /\ pc = "main_return"
    /\ pc' = "exited"
    /\ exit_status' = <<0>>
    /\ UNCHANGED <<argv, hwaddr, engine, advertised_hw, raop_cbs,
                   cfg, port, ret, logs, failed, handles, mock, sigstate>>

\* -------------------------------------------------------- server callbacks
\* the engine calls back only while it is started and not yet destroyed
EngineCanCall(cb) ==
    /\ pc # "exited"
    /\ cb \in raop_cbs
    /\ "raop" \in started
    /\ Len(delivered) < MaxCallbacks

\* mock: a renderer call records whether the handle it got is usable
RendererCall(op, h, args) ==
    [op |-> op, h |-> h, args |-> args, ready |-> h \in live /\ h \in started]

audio_process_unchecked(data) ==
    /\ EngineCanCall("audio_process")
    /\ delivered' = Append(delivered, [cb |-> "audio_process", args |-> data])
    /\ rendered' = Append(rendered,
                        RendererCall("audio_renderer_render_buffer", audio_renderer, data))
    /\ UNCHANGED <<pc, argv, hwaddr, advertised_hw, raop_cbs, cfg, port, ret, exit_status,
                   logs, failed, handles, mock, sigstate>>

audio_process(data) ==
    /\ EngineCanCall("audio_process")
    /\ delivered' = Append(delivered, [cb |-> "audio_process", args |-> data])
    /\ IF audio_renderer # NULL
       THEN rendered' = Append(rendered,
                RendererCall("audio_renderer_render_buffer", audio_renderer, data))
       ELSE UNCHANGED rendered
    /\ UNCHANGED <<pc, argv, hwaddr, advertised_hw, raop_cbs, cfg, port, ret, exit_status,
                   logs, failed, handles, mock, sigstate>>

video_process(data) ==
    /\ EngineCanCall("video_process")
    /\ delivered' = Append(delivered, [cb |-> "video_process", args |-> data])
    /\ rendered' = Append(rendered,
                        RendererCall("video_renderer_render_buffer", video_renderer, data))
    /\ UNCHANGED <<pc, argv, hwaddr, advertised_hw, raop_cbs, cfg, port, ret, exit_status,
                   logs, failed, handles, mock, sigstate>>

audio_set_volume(volume) ==
    /\ EngineCanCall("audio_set_volume")
    /\ delivered' = Append(delivered, [cb |-> "audio_set_volume", args |-> <<volume>>])
    /\ IF audio_renderer # NULL
       THEN rendered' = Append(rendered,
                RendererCall("audio_renderer_set_volume", audio_renderer, <<volume>>))
       ELSE UNCHANGED rendered
    /\ UNCHANGED <<pc, argv, hwaddr, advertised_hw, raop_cbs, cfg, port, ret, exit_status,
                   logs, failed, handles, mock, sigstate>>

\* the switch of log_callback: <<severity>> of the LOG macro used, <<>> for default
log_severity_promoting(level) ==
    CASE level = "LOGGER_DEBUG" -> <<"D">>
      [] level = "LOGGER_WARNING" -> <<"W">>
      [] level = "LOGGER_INFO" -> <<"I">>
      [] OTHER -> <<"E">>

log_severity(level) ==
    CASE level = "LOGGER_DEBUG" -> <<"D">>
      [] level = "LOGGER_WARNING" -> <<"W">>
      [] level = "LOGGER_INFO" -> <<"I">>
      [] level = "LOGGER_ERR" -> <<"E">>
      [] OTHER -> <<>>

\* installed as the sink of the engine (raop_set_log_callback) and of the
\* renderers' logger: any of them may call it while it is live
log_callback(level, msg) ==
    /\ pc # "exited"
    /\ live \cap {"raop", "video", "audio"} # {}
    /\ Len(delivered) < MaxCallbacks
    /\ delivered' = Append(delivered, [cb |-> "log_callback", args |-> <<level, msg>>])
    /\ logs' = IF log_severity(level) # <<>>
               THEN Append(logs, <<log_severity(level)[1], msg>>)
               ELSE logs
    /\ UNCHANGED <<pc, argv, hwaddr, rendered, advertised_hw, raop_cbs, cfg, port, ret,
                   exit_status, failed, handles, mock, sigstate>>

\* ------------------------------------------------------------ specification
MainStep ==
    \/ init_signals \/ parse_args \/ main_find_mac \/ main_parse_hw_addr
    \/ raop_init \/ video_renderer_init \/ audio_renderer_init
    \/ video_renderer_start \/ audio_renderer_start
    \/ raop_start \/ raop_set_port \/ dnssd_init \/ raop_set_dnssd
    \/ dnssd_register_raop \/ dnssd_register_airplay
    \/ main_check \/ set_running \/ run_loop \/ sleep
    \/ raop_destroy \/ dnssd_unregister_raop \/ dnssd_unregister_airplay
    \/ audio_renderer_destroy \/ video_renderer_destroy \/ main_return

Signal == \E sig \in Signals : signal_handler(sig)

Next == MainStep \/ Signal

Spec == Init /\ [][Next]_vars

\* the main thread is scheduled fairly; signals may or may not arrive
FairSpec == Spec /\ WF_vars(MainStep)

\* the engine's threads
EngineStep ==
    \/ \E data \in AudioFrames : audio_process(data)
    \/ \E data \in VideoFrames : video_process(data)
    \/ \E volume \in Volumes : audio_set_volume(volume)
    \/ \E level \in LogLevels : log_callback(level, EngineMsg)

NextEngine == Next \/ EngineStep

EngineSpec == InitEngine /\ [][NextEngine]_vars

\* the same program over every state of the two interface address files
MacSpec == InitMac /\ [][Next]_vars

TypeOK ==
    /\ Len(delivered) <= MaxCallbacks /\ Len(rendered) <= Len(delivered)
    /\ Len(advertised_hw) <= 1
    /\ running \in BOOLEAN
    /\ raop \in {NULL, "raop"} /\ dnssd \in {NULL, "dnssd"}
    /\ video_renderer \in {NULL, "video"} /\ audio_renderer \in {NULL, "audio"}
    /\ port \in 0..(USHORT_MOD - 1)
    /\ Len(ret) <= 1 /\ Len(exit_status) <= 1
    /\ nsig \in 0..MaxSignals

\* ------------------------------------------------------------- observations
StopOps == {"raop_destroy", "dnssd_unregister_raop", "dnssd_unregister_airplay",
            "audio_renderer_destroy", "video_renderer_destroy"}
TeardownOrder == <<"raop_destroy", "dnssd_unregister_raop", "dnssd_unregister_airplay",
                   "audio_renderer_destroy", "video_renderer_destroy">>
TeardownOrderNoAudio == <<"raop_destroy", "dnssd_unregister_raop", "dnssd_unregister_airplay",
                          "video_renderer_destroy">>

IsStopCall(c) == c.op \in StopOps
StopCalls == SelectSeq(calls, IsStopCall)
StopOpsDone == [i \in 1..Len(StopCalls) |-> StopCalls[i].op]
IsPrefix(s, t) == Len(s) <= Len(t) /\ \A i \in 1..Len(s) : s[i] = t[i]

StartSucceeded == ret = <<0>>
StartFailed == ret # <<>> /\ ret[1] # 0
InRunLoop == pc \in {"run_loop", "sleep"}
StopInvoked == pc \in StopOps \cup {"main_return"} \/ StopCalls # <<>>
StopReturned == StopInvoked /\ pc \in {"main_return", "exited"}

\* an argument is an operand when the option before it (-n or -a) takes it
RECURSIVE IsOperand(_, _)
IsOperand(args, i) == i > 1 /\ args[i - 1] \in {"-n", "-a"} /\ ~IsOperand(args, i - 1)
HelpRequested(args) == \E i \in DOMAIN args : args[i] \in {"-h", "-v"} /\ ~IsOperand(args, i)

\* ------------------------------------------------------------------- claims

\* C1: for every successfully started session stop_server makes its teardown
\* calls in the order raop_destroy, dnssd_unregister_raop,
\* dnssd_unregister_airplay, audio_renderer_destroy, video_renderer_destroy:
\* at every moment the teardown calls made so far are a prefix of that order,
\* and when stop_server has returned they are exactly that order.
C1_TeardownOrder ==
    /\ IsPrefix(StopOpsDone, TeardownOrder)
    /\ StopReturned => StopOpsDone = TeardownOrder
C1_Witness ==
    /\ pc = "exited" /\ StartSucceeded /\ audio_renderer # NULL
    /\ StopOpsDone = TeardownOrder

\* C2: when start_server returns a failure, no subsystem constructed at an
\* earlier step is still live.
C2_NoPartialSession == StartFailed => live = {}

\* C3: the value start_server returns on failure identifies the failing init
\* step (no other init step yields the same value), and the failing call is
\* the last subsystem call made.
C3_DistinctOutcomes ==
    StartFailed =>
        /\ \A s \in InitSteps \ {failed} : start_error(s) # ret[1]
        /\ calls[Len(calls)].op = failed

\* C4: after start_server returns 0 the audio renderer handle is set exactly
\* when the audio device is not AUDIO_DEVICE_NONE, and the video renderer
\* handle is set.
C4_AudioIffNotNone ==
    StartSucceeded =>
        /\ (audio_renderer # NULL) <=> (cfg.audio_device # "AUDIO_DEVICE_NONE")
        /\ video_renderer # NULL
C4_Witness ==
    /\ StartSucceeded /\ cfg.audio_device = "AUDIO_DEVICE_NONE" /\ audio_renderer = NULL
    /\ video_renderer # NULL

\* C5: the flag only ever goes from RUNNING to STOPPING, only in a step of
\* the signal handler for SIGINT or SIGTERM, and once a termination signal
\* has put it at STOPPING no later step makes it RUNNING again.
C5_OnlyRunningToStopping ==
    [][ /\ (running /\ ~running') => \E sig \in TermSignals : signal_handler(sig)
        /\ (termReceived /\ ~running) => ~running' ]_vars

\* C6: stop_server is entered at most once, only after start_server returned
\* 0 and only after a SIGINT or SIGTERM was delivered.
C6_StopOnce ==
    /\ Cardinality({i \in DOMAIN calls : calls[i].op = "raop_destroy"}) <= 1
    /\ StopInvoked => (StartSucceeded /\ termReceived)
C6_Witness == StopReturned /\ nsig >= 2 /\ pc = "exited"

\* C7: once start_server has succeeded and a termination signal has cleared
\* the flag inside the run loop, the loop eventually exits and stop_server
\* runs through all of its teardown calls (main thread scheduled fairly).
C7_SignalLeadsToStop ==
    (StartSucceeded /\ InRunLoop /\ ~running) ~> (pc = "exited" /\ StopOpsDone = TeardownOrder)
C7_Witness == StartSucceeded /\ InRunLoop /\ ~running /\ nsig = 1

\* C8: the primary service is registered on the port raop_start returned and
\* the companion service on that port plus one, for every port including 0
\* and 65535.
C8_CompanionPort ==
    /\ registered.raop # <<>> => registered.raop[1] = port
    /\ registered.airplay # <<>> => registered.airplay[1] = port + 1
C8_Witness ==
    /\ registered.raop = <<USHORT_MOD - 1>> /\ registered.airplay = <<USHORT_MOD>>

\* C9: stop_server never passes an absent (NULL) handle to a destroy or
\* unregister operation, and for a session started with AUDIO_DEVICE_NONE
\* its calls are exactly raop_destroy, dnssd_unregister_raop,
\* dnssd_unregister_airplay, video_renderer_destroy.
C9_NoAbsentHandle ==
    /\ \A i \in DOMAIN StopCalls : StopCalls[i].h # NULL
    /\ (StopReturned /\ cfg.audio_device = "AUDIO_DEVICE_NONE")
            => StopOpsDone = TeardownOrderNoAudio

\* C10: the exit status is 1 exactly when start_server failed and 0 after
\* help/version or a completed stop_server; after a failed start the flag is
\* never RUNNING and stop_server is never entered; with -h or -v given as an
\* option start_server is never entered.
C10_ExitStatus ==
    /\ pc = "exited" => (exit_status = <<1>> <=> StartFailed)
    /\ (pc = "exited" /\ (cfg.help \/ StopReturned)) => exit_status = <<0>>
    /\ StartFailed => (~running /\ ~StopInvoked /\ pc \in {"main_check", "exited"})
    /\ (HelpRequested(argv) /\ pc \notin {"init_signals", "parse_args"})
            => (pc = "exited" /\ calls = <<>> /\ ret = <<>> /\ exit_status = <<0>>)
C10_Witness == pc = "exited" /\ exit_status = <<1>> /\ failed = "dnssd_init"

\* C11: the renderer calls made are exactly the forwards of the callbacks
\* delivered, in order: audio_process and audio_set_volume forward to the
\* audio renderer when its handle is set and do nothing otherwise,
\* video_process always forwards to the video renderer, and every forward
\* carries the callback's arguments unchanged.
ForwardOf(e) ==
    CASE e.cb = "audio_process" ->
            IF audio_renderer # NULL
            THEN <<[op |-> "audio_renderer_render_buffer", h |-> audio_renderer, args |-> e.args]>>
            ELSE <<>>
      [] e.cb = "audio_set_volume" ->
            IF audio_renderer # NULL
            THEN <<[op |-> "audio_renderer_set_volume", h |-> audio_renderer, args |-> e.args]>>
            ELSE <<>>
      [] e.cb = "video_process" ->
            <<[op |-> "video_renderer_render_buffer", h |-> video_renderer, args |-> e.args]>>
      [] OTHER -> <<>>
RECURSIVE ForwardsOf(_)
ForwardsOf(events) ==
    IF events = <<>> THEN <<>> ELSE ForwardOf(Head(events)) \o ForwardsOf(Tail(events))
RenderedCalls == [i \in DOMAIN rendered |->
                    [op |-> rendered[i].op, h |-> rendered[i].h, args |-> rendered[i].args]]
C11_RouterDispatch == RenderedCalls = ForwardsOf(delivered)
C11_Witness ==
    /\ audio_renderer = NULL
    /\ Len(delivered) = 2 /\ Len(rendered) = 1
    /\ delivered[1].cb = "audio_process" /\ delivered[2].cb = "video_process"

\* C12: the address string used is that of the first of eth0, wlan0 that is
\* readable and non-empty, and the session keeps the default address exactly
\* when neither is.
FirstUsable(e, w) ==
    IF e.readable /\ e.text # <<>> THEN e.text
    ELSE IF w.readable /\ w.text # <<>> THEN w.text
    ELSE <<>>
C12_FirstUsableSource ==
    /\ pc = "parse_hw_addr" => mac_address = FirstUsable(eth0, wlan0)
    /\ pc = "raop_init" =>
            ((server_hw_addr = DEFAULT_HW_ADDRESS) <=> (FirstUsable(eth0, wlan0) = <<>>))

\* C13: the subsystem calls of start_server are made in the order raop_init,
\* video_renderer_init, audio_renderer_init (unless AUDIO_DEVICE_NONE; given
\* the video renderer), video_renderer_start, audio_renderer_start (if
\* present), raop_start, raop_set_port, dnssd_init, raop_set_dnssd,
\* dnssd_register_raop, dnssd_register_airplay; nothing is started before
\* the engine holds the three callbacks.
IsStartCall(c) == c.op \notin StopOps
StartCalls == SelectSeq(calls, IsStartCall)
StartOpsDone == [i \in DOMAIN StartCalls |-> StartCalls[i].op]
StartOrder ==
    <<"raop_init", "video_renderer_init">>
    \o (IF cfg.audio_device = "AUDIO_DEVICE_NONE" THEN <<>> ELSE <<"audio_renderer_init">>)
    \o <<"video_renderer_start">>
    \o (IF cfg.audio_device = "AUDIO_DEVICE_NONE" THEN <<>> ELSE <<"audio_renderer_start">>)
    \o <<"raop_start", "raop_set_port", "dnssd_init", "raop_set_dnssd",
          "dnssd_register_raop", "dnssd_register_airplay">>
C13_StartOrder ==
    /\ StartSucceeded => StartOpsDone = StartOrder
    /\ \A i \in DOMAIN calls : calls[i].op = "audio_renderer_init" => calls[i].h = "video"
    /\ started # {} => raop_cbs = {"audio_process", "video_process", "audio_set_volume"}
C13_Witness ==
    /\ pc = "set_running" /\ StartSucceeded /\ audio_renderer # NULL
    /\ Len(StartOpsDone) = 11

\* C14: a termination signal delivered before the run loop begins is not
\* lost: whenever the main thread is in the run loop and a SIGINT or SIGTERM
\* has been delivered, the flag reads STOPPING.
C14_SignalNotLost == (InRunLoop /\ termReceived) => ~running

\* C15: every call a callback makes on a renderer is made on a handle that
\* is set, constructed, started and not destroyed; while the engine is
\* started the video renderer, and the audio renderer if any, are started
\* and not destroyed.
Usable(h) == h # NULL /\ h \in live /\ h \in started
C15_CallbacksSeeLiveRenderers ==
    /\ \A i \in DOMAIN rendered : rendered[i].h # NULL /\ rendered[i].ready
    /\ "raop" \in started =>
            /\ Usable(video_renderer)
            /\ audio_renderer # NULL => Usable(audio_renderer)
C15_Witness ==
    /\ pc = "exited" /\ StopReturned
    /\ Len(rendered) = 2
    /\ rendered[1].h = "audio" /\ rendered[2].h = "video"

\* C16: after a successful start and until stop_server, the engine's port
\* record, the port raop_start returned and the port the primary service is
\* registered on are equal.
C16_PortsAgree ==
    (StartSucceeded /\ ~StopInvoked) =>
        /\ raop_port = <<port>>
        /\ registered.raop = <<port>>
C16_Witness == StartSucceeded /\ InRunLoop /\ raop_port = <<7000>> /\ registered.raop = <<7000>>

\* C17: once stop_server has returned no subsystem of the session is live
\* and neither service is registered.
C17_NothingLiveAfterStop ==
    StopReturned =>
        /\ live = {}
        /\ registered.raop = <<>> /\ registered.airplay = <<>>

\* C18: the hardware address handed to dnssd_init has exactly 6 bytes.
C18_SixBytes == advertised_hw # <<>> => Len(advertised_hw[1]) = 6

\* C19: a step of the signal handler changes nothing but the flag (and the
\* delivery bookkeeping): handles, subsystem calls, renderer calls and the
\* log are unchanged, and for a signal other than SIGINT and SIGTERM the
\* flag is unchanged too.
C19_HandlerFrame ==
    [][\A sig \in Signals :
          signal_handler(sig) =>
             /\ UNCHANGED <<handles, mock, logs, rendered, advertised_hw, raop_cbs, pc>>
             /\ sig \notin TermSignals => UNCHANGED running]_vars
C19_Witness == InRunLoop /\ running /\ nsig = MaxSignals /\ ~termReceived

\* C20: the log lines that come from log events are, in order, one line per
\* event whose level is LOGGER_DEBUG, LOGGER_WARNING, LOGGER_INFO or
\* LOGGER_ERR, at the severity of the same kind; events of any other level
\* leave no line.
SameKind(level) ==
    CASE level = "LOGGER_DEBUG" -> "D"
      [] level = "LOGGER_WARNING" -> "W"
      [] level = "LOGGER_INFO" -> "I"
      [] level = "LOGGER_ERR" -> "E"
KnownLevels == {"LOGGER_DEBUG", "LOGGER_WARNING", "LOGGER_INFO", "LOGGER_ERR"}
IsKnownLogEvent(e) == e.cb = "log_callback" /\ e.args[1] \in KnownLevels
IsEngineLine(l) == l[2] = EngineMsg
KnownLogEvents == SelectSeq(delivered, IsKnownLogEvent)
C20_LogMapping ==
    SelectSeq(logs, IsEngineLine) =
        [i \in DOMAIN KnownLogEvents |-> <<SameKind(KnownLogEvents[i].args[1]), EngineMsg>>]
C20_Witness ==
    /\ Len(delivered) = 2
    /\ delivered[1].cb = "log_callback" /\ delivered[1].args[1] = "LOGGER_NOTICE"
    /\ delivered[2].cb = "log_callback" /\ delivered[2].args[1] = "LOGGER_WARNING"
    /\ Len(SelectSeq(logs, IsEngineLine)) = 1

====
